---- MODULE Spec2Model ----
(***************************************************************************)
(* Model of sfha_geocoder.py: the command-line entry point, run (the row   *)
(* pipeline over a workbook), the two resolvers geocode and geocode_legal, *)
(* centroid, classify and parse_legal.                                     *)
(*                                                                         *)
(* Python values are records tagged by type: None, str (a sequence of      *)
(* one-character strings), int and float (exact rationals num/den).        *)
(* A Python call is modelled by its outcome: a returned value or a raised  *)
(* exception, together with what it printed and the requests it issued.    *)
(***************************************************************************)
EXTENDS Integers, Sequences, FiniteSets, TLC

VARIABLES
    text,       \* SpecText: the str handed to classify / parse_legal
    text_out,   \* SpecText: outcome of the last call on text
    geo_in,     \* SpecGeo: the input of the last resolver / centroid call
    geo_out,    \* SpecGeo: outcome of the last resolver / centroid call
    argv,       \* Spec: sys.argv
    fs,         \* Spec: file name -> workbook on disk, or unreadable
    pc,         \* Spec: position of the program
    ws,         \* Spec: rows of the loaded source worksheet still to iterate
    headers,    \* Spec: run's local headers
    new_ws,     \* Spec: the rows appended to the destination worksheet
    saved,      \* Spec: the workbook written to disk, if any
    stdout,     \* Spec: what has been printed, in order
    requests,   \* Spec: number of HTTP requests issued
    trace       \* Spec: per data row, the helper calls run made, in order

vars == <<text, text_out, geo_in, geo_out, argv, fs, pc, ws, headers, new_ws,
          saved, stdout, requests, trace>>

-----------------------------------------------------------------------------
(* Python values *)

None == [t |-> "None"]
Str(s) == [t |-> "str", v |-> s]
PyInt(n) == [t |-> "int", v |-> n]

\* outcome of a Python call
Return(v) == [exc |-> "", val |-> v]
Raise(e) == [exc |-> e]

Abs(n) == IF n < 0 THEN -n ELSE n

RECURSIVE Gcd(_, _)
Gcd(a, b) == IF b = 0 THEN a ELSE Gcd(b, a % b)

\* the number n/d, d # 0, in lowest terms with a positive denominator
Float(n, d) ==
    LET g == Gcd(Abs(n), Abs(d))
        sgn == IF d < 0 THEN -1 ELSE 1
    IN [t |-> "num", num |-> sgn * (n \div g), den |-> Abs(d) \div g]

Number(n) == Float(n, 1)

Point(x, y) == [x |-> x, y |-> y]

Legal(lot, block, subdivision) ==
    [lot |-> lot, block |-> block, subdivision |-> subdivision]

AddressType == {"ADD", "LEGAL", "NA"}

-----------------------------------------------------------------------------
(* Regular expressions, as re.match evaluates them.  A position is the     *)
(* number of characters consumed so far.                                   *)

Digits == {"0", "1", "2", "3", "4", "5", "6", "7", "8", "9"}

IsDigit(c) == c \in Digits

\* positions after matching the literal w from a position of P
ReLit(s, P, w) ==
    { p + Len(w) : p \in { q \in P : /\ q + Len(w) <= Len(s)
                                     /\ SubSeq(s, q + 1, q + Len(w)) = w } }

\* positions after matching lo..hi characters of a class (\d when digit,
\* \D otherwise) from a position of P
ReClass(s, P, digit, lo, hi) ==
    { q \in 0..Len(s) : \E p \in P : /\ q - p >= lo
                                     /\ q - p <= hi
                                     /\ \A k \in (p + 1)..q : IsDigit(s[k]) = digit }

\* the positions of P where $ matches: the end of the string, or just
\* before a newline that ends the string
ReEnd(s, P) ==
    { p \in P : \/ p = Len(s)
                \/ (p = Len(s) - 1 /\ s[Len(s)] = "\n") }

StreetSuffixes ==
    { <<"R", "o", "a", "d">>, <<"D", "r", "i", "v", "e">>,
      <<"C", "o", "u", "r", "t">>, <<"C", "o", "v", "e">>,
      <<"B", "o", "u", "l", "e", "v", "a", "r", "d">>,
      <<"S", "t", "r", "e", "e", "t">>, <<"C", "i", "r", "c", "l", "e">> }

Lot == <<"L", "o", "t">>
Block == <<"B", "l", "o", "c", "k">>
Space == <<" ">>

\* PATTERN_ADDRESS.match(s) is not None
PATTERN_ADDRESS(s) ==
    LET p1 == ReClass(s, {0}, TRUE, 1, Len(s))
        p2 == ReLit(s, p1, Space)
        p3 == ReClass(s, p2, FALSE, 1, Len(s))
        p4 == ReLit(s, p3, Space)
        p5 == UNION { ReLit(s, p4, w) : w \in StreetSuffixes }
                \cup ReClass(s, p4, TRUE, 1, 3)
    IN ReEnd(s, p5) # {}

\* the matches of (kw (\d+) ) at position p: keyword, digits, end
LegalPairOf(s, p, kw) ==
    { [kw |-> kw, num |-> SubSeq(s, p + Len(kw) + 2, e - 1), end |-> e] :
        e \in ReLit(s, ReClass(s, ReLit(s, ReLit(s, {p}, kw), Space),
                                TRUE, 1, Len(s)), Space) }

\* the matches of ((Lot|Block) (\d+) ) at position p
LegalPair(s, p) == LegalPairOf(s, p, Lot) \cup LegalPairOf(s, p, Block)

\* the end positions of (\D+)$ from position p
LegalTail(s, p) == ReEnd(s, ReClass(s, {p}, FALSE, 1, Len(s)))

Max(S) == CHOOSE m \in S : \A n \in S : n <= m

NoMatch == [matched |-> FALSE]

\* PATTERN_LEGAL.match(s): the groups 2, 3, 4 (None when the optional pair
\* did not take part), 5, 6, 7
PATTERN_LEGAL(s) ==
    LET first == LegalPair(s, 0)
    IN IF first = {} THEN NoMatch
       ELSE LET a == CHOOSE m \in first : TRUE
                second == { m \in LegalPair(s, a.end) : LegalTail(s, m.end) # {} }
            IN IF second # {}
               THEN LET b == CHOOSE m \in second : TRUE
                    IN [matched |-> TRUE, g2 |-> a.kw, g3 |-> a.num,
                        g4 |-> Str(SubSeq(s, a.end + 1, b.end)),
                        g5 |-> b.kw, g6 |-> b.num,
                        g7 |-> SubSeq(s, b.end + 1, Max(LegalTail(s, b.end)))]
               ELSE IF LegalTail(s, a.end) # {}
                    THEN [matched |-> TRUE, g2 |-> a.kw, g3 |-> a.num,
                          g4 |-> None, g5 |-> <<>>, g6 |-> <<>>,
                          g7 |-> SubSeq(s, a.end + 1, Max(LegalTail(s, a.end)))]
                    ELSE NoMatch

DigitValue(c) == CHOOSE n \in 0..9 : ToString(n) = c

\* int(ds) for a str of decimal digits
RECURSIVE int(_)
int(ds) ==
    IF Len(ds) = 0 THEN 0
    ELSE 10 * int(SubSeq(ds, 1, Len(ds) - 1)) + DigitValue(ds[Len(ds)])

-----------------------------------------------------------------------------
(* classify and parse_legal *)

classify(addr_string) ==
    IF addr_string.t # "str" THEN Raise("TypeError")
    ELSE IF PATTERN_ADDRESS(addr_string.v) THEN Return("ADD")
    ELSE IF PATTERN_LEGAL(addr_string.v).matched THEN Return("LEGAL")
    ELSE Return("NA")

\* parse_legal with the second pair ignored when the first pair already set
\* the field
parse_legal_first_wins(addr_string) ==
    IF addr_string.t # "str" THEN Raise("TypeError")
    ELSE LET m == PATTERN_LEGAL(addr_string.v)
         IN IF ~m.matched THEN Raise("AttributeError")
            ELSE LET lot1 == IF m.g2 = Lot THEN PyInt(int(m.g3)) ELSE None
                     block1 == IF m.g2 = Lot THEN None ELSE PyInt(int(m.g3))
                     lot == IF m.g4 # None /\ m.g5 = Lot /\ lot1 = None
                            THEN PyInt(int(m.g6)) ELSE lot1
                     block == IF m.g4 # None /\ m.g5 # Lot /\ block1 = None
                              THEN PyInt(int(m.g6)) ELSE block1
                 IN Return(Legal(lot, block, Str(m.g7)))

parse_legal(addr_string) ==
    IF addr_string.t # "str" THEN Raise("TypeError")
    ELSE LET m == PATTERN_LEGAL(addr_string.v)
         IN IF ~m.matched THEN Raise("AttributeError")
            ELSE LET lot1 == IF m.g2 = Lot THEN PyInt(int(m.g3)) ELSE None
                     block1 == IF m.g2 = Lot THEN None ELSE PyInt(int(m.g3))
                     lot == IF m.g4 # None /\ m.g5 = Lot
                            THEN PyInt(int(m.g6)) ELSE lot1
                     block == IF m.g4 # None /\ m.g5 # Lot
                              THEN PyInt(int(m.g6)) ELSE block1
                 IN Return(Legal(lot, block, Str(m.g7)))

-----------------------------------------------------------------------------
(* centroid, geocode and geocode_legal *)

RECURSIVE Sum(_)
Sum(xs) == IF Len(xs) = 0 THEN 0 ELSE Head(xs) + Sum(Tail(xs))

\* centroid averaging the last ring of the geometry instead of the first
centroid_last_ring(ring) ==
    IF Len(ring) = 0 THEN Raise("IndexError")
    ELSE LET r == ring[Len(ring)]
         IN IF Len(r) = 0 THEN Raise("ZeroDivisionError")
            ELSE Return(Point(Float(Sum([k \in 1..Len(r) |-> r[k][1]]), Len(r)),
                              Float(Sum([k \in 1..Len(r) |-> r[k][2]]), Len(r))))

centroid(ring) ==
    IF Len(ring) = 0 THEN Raise("IndexError")
    ELSE LET r == ring[1]
         IN IF Len(r) = 0 THEN Raise("ZeroDivisionError")
            ELSE Return(Point(Float(Sum([k \in 1..Len(r) |-> r[k][1]]), Len(r)),
                              Float(Sum([k \in 1..Len(r) |-> r[k][2]]), Len(r))))

Sentinel == Point(Number(0), Number(0))

\* d[k] on a dict d
HasKey(d, k) == k \in DOMAIN d

\* outcome of a resolver: what it returns or raises, what it printed and the
\* requests it sent
Outcome(ret, printed, sent) ==
    [exc |-> ret.exc, ret |-> ret, printed |-> printed, sent |-> sent]

\* lines 99-113: the request geocode sends
address_query(address) ==
    [url |-> "findAddressCandidates", single_line_input |-> address]

\* the try block of geocode, lines 115-121; s is what the session delivers
geocode_try(s, address) ==
    LET sent == << address_query(address) >>
    IN IF s.net # "ok" THEN Outcome(Raise("RequestException"), <<>>, sent)
       ELSE IF ~s.json THEN Outcome(Raise("ValueError"), <<>>, sent)
       ELSE IF ~HasKey(s.j, "candidates") THEN Outcome(Raise("KeyError"), <<>>, sent)
       ELSE IF Len(s.j.candidates) = 0
            THEN Outcome(Return(Sentinel),
                         << [msg |-> "No candidates for", arg |-> address] >>, sent)
       ELSE IF ~HasKey(s.j.candidates[1], "location")
            THEN Outcome(Raise("KeyError"), <<>>, sent)
       ELSE LET loc_dict == s.j.candidates[1].location
            IN IF ~(HasKey(loc_dict, "x") /\ HasKey(loc_dict, "y"))
               THEN Outcome(Raise("KeyError"), <<>>, sent)
               ELSE Outcome(Return(Point(loc_dict.x, loc_dict.y)), <<>>, sent)

\* lines 114-126
geocode(s, address) ==
    LET body == geocode_try(s, address)
    IN IF body.exc # ""
       THEN Outcome(Return(Sentinel),
                    << [msg |-> "Failed to fetch", arg |-> address,
                        err |-> body.exc] >>,
                    body.sent)
       ELSE body

LowerCase == << "a", "b", "c", "d", "e", "f", "g", "h", "i", "j", "k", "l", "m",
                "n", "o", "p", "q", "r", "s", "t", "u", "v", "w", "x", "y", "z" >>
UpperCase == << "A", "B", "C", "D", "E", "F", "G", "H", "I", "J", "K", "L", "M",
                "N", "O", "P", "Q", "R", "S", "T", "U", "V", "W", "X", "Y", "Z" >>

\* str.upper
upper(str) ==
    [k \in 1..Len(str) |->
        IF \E n \in 1..26 : LowerCase[n] = str[k]
        THEN UpperCase[CHOOSE n \in 1..26 : LowerCase[n] = str[k]]
        ELSE str[k]]

\* lines 135-139: the clauses joined by AND
where_clause(legal) ==
    << [field |-> "SUB_NAME", like |-> Str(upper(legal.subdivision.v) \o <<"%">>)] >>
    \o (IF legal.lot # None
        THEN << [field |-> "LOT", like |-> legal.lot] >> ELSE <<>>)
    \o (IF legal.block # None
        THEN << [field |-> "BLOCK", like |-> legal.block] >> ELSE <<>>)

\* lines 134-173: the request geocode_legal sends
parcel_query(legal) ==
    [url |-> "MapServer/51/query", where |-> where_clause(legal)]

\* the try block of geocode_legal, lines 175-181
geocode_legal_try(s, legal) ==
    LET sent == << parcel_query(legal) >>
    IN IF s.net # "ok" THEN Outcome(Raise("RequestException"), <<>>, sent)
       ELSE IF ~s.json THEN Outcome(Raise("ValueError"), <<>>, sent)
       ELSE IF ~HasKey(s.j, "features") THEN Outcome(Raise("KeyError"), <<>>, sent)
       ELSE IF Len(s.j.features) = 0
            THEN Outcome(Return(Sentinel),
                         << [msg |-> "No candidates for", arg |-> legal] >>, sent)
       ELSE IF ~HasKey(s.j.features[1], "geometry")
            THEN Outcome(Raise("KeyError"), <<>>, sent)
       ELSE IF ~HasKey(s.j.features[1].geometry, "rings")
            THEN Outcome(Raise("KeyError"), <<>>, sent)
       ELSE Outcome(centroid(s.j.features[1].geometry.rings), <<>>, sent)

\* geocode_legal without the except clause
geocode_legal_no_except(s, legal) ==
    IF legal.subdivision.t # "str"
    THEN Outcome(Raise("AttributeError"), <<>>, <<>>)
    ELSE geocode_legal_try(s, legal)

\* lines 134-185; str.upper on line 135 is outside the try block
geocode_legal(s, legal) ==
    IF legal.subdivision.t # "str"
    THEN Outcome(Raise("AttributeError"), <<>>, <<>>)
    ELSE LET body == geocode_legal_try(s, legal)
         IN IF body.exc # ""
            THEN Outcome(Return(Sentinel),
                         << [msg |-> "failed to find legal:", arg |-> legal,
                             err |-> body.exc] >>,
                         body.sent)
            ELSE body

-----------------------------------------------------------------------------
(* SpecText: classify and parse_legal applied to bounded strings *)

MaxPieces == 4

Shadylane == <<"S", "h", "a", "d", "y", "l", "a", "n", "e">>

Pieces ==
    { Lot \o <<" ", "1", "2", " ">>, Block \o <<" ", "3", " ">>,
      Lot \o <<" ", "3", " ">>,
      <<"1", "2", " ">>, <<"1", "2">>, <<"3">>, Shadylane,
      <<" ", "R", "o", "a", "d">>, Space, <<"\n">> }

RECURSIVE Concat(_)
Concat(ss) == IF Len(ss) = 0 THEN <<>> ELSE Head(ss) \o Concat(Tail(ss))

TextIdle == text = <<>> /\ text_out = [fn |-> "none"]
GeoIdle == geo_in = [fn |-> "none"] /\ geo_out = [fn |-> "none"]
RunIdle ==
    /\ argv = <<>> /\ fs = <<>> /\ pc = "idle" /\ ws = <<>> /\ headers = <<>>
    /\ new_ws = <<>> /\ saved = None /\ stdout = <<>> /\ requests = 0
    /\ trace = <<>>

textVars == <<text, text_out>>
geoVars == <<geo_in, geo_out>>
runVars == <<argv, fs, pc, ws, headers, new_ws, saved, stdout, requests, trace>>

InitText ==
    /\ \E n \in 0..MaxPieces : \E f \in [1..n -> Pieces] : text = Concat(f)
    /\ text_out = [fn |-> "none"]
    /\ GeoIdle /\ RunIdle

DoClassify ==
    /\ text_out' = [fn |-> "classify", out |-> classify(Str(text))]
    /\ UNCHANGED <<text, geoVars, runVars>>

DoParseLegal ==
    /\ text_out' = [fn |-> "parse_legal", out |-> parse_legal(Str(text))]
    /\ UNCHANGED <<text, geoVars, runVars>>

NextText == DoClassify \/ DoParseLegal

SpecText == InitText /\ [][NextText]_vars

-----------------------------------------------------------------------------
(* SpecGeo: centroid, geocode and geocode_legal applied to bounded inputs *)

MaxRingLen == 4
MaxLaterRings == 1
MaxCandidates == 2

Points == { <<0, 0>>, <<4, 0>>, <<4, 4>>, <<0, 4>>, <<-4, 4>> }

SeqsUpTo(S, n) == UNION { [1..m -> S] : m \in 0..n }

LaterRings == { <<>>, << <<4, 4>> >>, << <<-4, 0>>, <<0, 4>> >> }

\* the rings of the geometries the parcel service returns: none, or a first
\* ring of up to two points and the rings after it
ShortGeometries ==
    { <<>> } \cup { <<r>> \o later : r \in SeqsUpTo(Points, 2),
                                     later \in SeqsUpTo(LaterRings, MaxLaterRings) }

\* what the session delivers: a failed request, a body that is not JSON, or
\* a JSON object
NetError == [net |-> "error"]
NotJson == [net |-> "ok", json |-> FALSE]
Json(j) == [net |-> "ok", json |-> TRUE, j |-> j]
ErrorObject == [error |-> "400"]

Candidates ==
    { [score |-> 100], [location |-> [x |-> Number(4)]] }
    \cup { [location |-> [x |-> Number(p[1]), y |-> Number(p[2])]] : p \in Points }

AddressResponses ==
    { NetError, NotJson, Json(ErrorObject) }
    \cup { Json([candidates |-> c]) : c \in SeqsUpTo(Candidates, MaxCandidates) }

Features ==
    { [attributes |-> 1], [geometry |-> [x |-> 4]] }
    \cup { [geometry |-> [rings |-> g]] :
              g \in ShortGeometries }

LaterFeatures == { <<>>, << [geometry |-> [rings |-> << << <<4, 4>> >> >>]] >> }

ParcelResponses ==
    { NetError, NotJson, Json(ErrorObject), Json([features |-> <<>>]) }
    \cup { Json([features |-> <<f>> \o later]) : f \in Features,
                                                  later \in LaterFeatures }

Square == << <<0, 0>>, <<4, 0>>, <<4, 4>>, <<0, 4>> >>

Main12 == <<"1", "2", " ">> \o Shadylane \o <<" ", "R", "o", "a", "d">>

GeoAddresses == { Str(Main12), Str(<<"3", " ">> \o Shadylane \o <<" ", "3">>) }
GeoLegals == { Legal(PyInt(12), None, Str(Shadylane)),
               Legal(PyInt(12), PyInt(3), Str(Shadylane)) }

\* centroid is applied to no ring at all, or to a first ring of up to
\* MaxRingLen points followed by up to MaxLaterRings rings
InitGeo ==
    /\ \/ geo_in = [fn |-> "centroid", ring |-> <<>>]
       \/ \E n \in 0..MaxRingLen, m \in 0..MaxLaterRings :
            \E r \in [1..n -> Points], later \in [1..m -> LaterRings] :
                geo_in = [fn |-> "centroid", ring |-> <<r>> \o later]
       \/ \E s \in AddressResponses, a \in GeoAddresses :
            geo_in = [fn |-> "geocode", s |-> s, address |-> a]
       \/ \E s \in ParcelResponses, l \in GeoLegals :
            geo_in = [fn |-> "geocode_legal", s |-> s, legal |-> l]
    /\ geo_out = [fn |-> "none"]
    /\ TextIdle /\ RunIdle

DoCentroid ==
    /\ geo_in.fn = "centroid" /\ geo_out.fn = "none"
    /\ geo_out' = [fn |-> "centroid", out |-> centroid(geo_in.ring)]
    /\ UNCHANGED <<geo_in, textVars, runVars>>

DoGeocode ==
    /\ geo_in.fn = "geocode" /\ geo_out.fn = "none"
    /\ geo_out' = [fn |-> "geocode", out |-> geocode(geo_in.s, geo_in.address)]
    /\ UNCHANGED <<geo_in, textVars, runVars>>

DoGeocodeLegal ==
    /\ geo_in.fn = "geocode_legal" /\ geo_out.fn = "none"
    /\ geo_out' = [fn |-> "geocode_legal",
                   out |-> geocode_legal(geo_in.s, geo_in.legal)]
    /\ UNCHANGED <<geo_in, textVars, runVars>>

NextGeo == DoCentroid \/ DoGeocode \/ DoGeocodeLegal

SpecGeo == InitGeo /\ [][NextGeo]_vars

-----------------------------------------------------------------------------
(* Spec: the program, from the command line to the saved workbook *)

MaxRows == 2

\* tuple.index(v) / v in tuple
Contains(tuple, v) == \E k \in 1..Len(tuple) : tuple[k] = v
index(tuple, v) ==
    IF Contains(tuple, v)
    THEN Return(CHOOSE k \in 1..Len(tuple) :
                    tuple[k] = v /\ \A m \in 1..(k - 1) : tuple[m] # v)
    ELSE Raise("ValueError")

\* HasAddress with the test of line 56 left out
HasAddress_unchecked(hs) == TRUE

\* line 56, negated: the header row has a column named Address
HasAddress(hs) == Contains(hs, "Address")

\* lines 60-63
with_xy(hs) ==
    LET hx == IF Contains(hs, "X") THEN hs ELSE Append(hs, "X")
    IN IF Contains(hx, "Y") THEN hx ELSE Append(hx, "Y")

\* the branch of lines 75-82 taken for a classification, swapped
dispatch_swapped(add_type) ==
    IF add_type = "NA" THEN "skip"
    ELSE IF add_type = "LEGAL" THEN "geocode"
    ELSE "geocode_legal"

\* the branch of lines 75-82 taken for a classification
dispatch(add_type) ==
    IF add_type = "NA" THEN "skip"
    ELSE IF add_type = "LEGAL" THEN "geocode_legal"
    ELSE "geocode"

\* line 83 with the test left out
unresolved_never(point) == FALSE

\* line 83: point.x == 0
unresolved(point) == point.x.num = 0

\* lines 69-72
pad(r, hs) == IF Len(r) < Len(hs) THEN r \o <<None, None>> ELSE r

\* line 89: source_filename.split(".")[0] + "_geocoded.xlsx"; a file name is
\* the sequence of its dot-separated parts
dst_name(source_filename) ==
    [stem |-> source_filename[1], suffix |-> "_geocoded.xlsx"]

Program == <<"sfha_geocoder", "py">>
InFile == <<"in", "xlsx">>
MissingFile == <<"missing", "xlsx">>
Files == {InFile, MissingFile}

Usage == [msg |-> "Usage: python sfha_geocoder FILENAME"]
CannotLoad(f) == [msg |-> "Cannot load workbook named:", arg |-> f]
NoAddressColumn == [msg |-> "The spreadsheet has no column named 'Address'"]
WorksheetSaved == [msg |-> "Worksheet saved"]

Layouts ==
    { <<"Address">>, <<"Name", "Address">>, <<"Address", "X", "Y">>,
      <<"Name">>, <<"X", "Address">> }

AddressCells ==
    { None, Str(<<>>), Str(Main12),
      Str(Lot \o <<" ", "1", "2", " ">> \o Block \o <<" ", "3", " ">> \o Shadylane) }

CellChoices(h, k) ==
    IF h = "Address" THEN AddressCells
    ELSE IF h = "X" THEN { None, Number(7) }
    ELSE IF h = "Y" THEN { Number(9) }
    ELSE { Str(<<ToString(k)>>) }

\* the values row k of a sheet with the given header row can hold
RECURSIVE DataRows(_, _)
DataRows(layout, k) ==
    IF Len(layout) = 0 THEN { <<>> }
    ELSE { <<c>> \o rest : c \in CellChoices(Head(layout), k),
                           rest \in DataRows(Tail(layout), k) }

\* worksheets: a header row and n data rows of the same width
RECURSIVE Sheets(_, _)
Sheets(layout, n) ==
    IF n = 0 THEN { <<layout>> }
    ELSE { Append(sheet, r) : sheet \in Sheets(layout, n - 1),
                              r \in DataRows(layout, n) }

\* a worksheet has no row at all, or a header row and up to MaxRows data rows
Worksheets ==
    { <<>> } \cup UNION { Sheets(layout, n) : layout \in Layouts, n \in 0..MaxRows }

Argvs ==
    { <<Program>>, <<Program, InFile>>, <<Program, MissingFile>>,
      <<Program, InFile, MissingFile>> }

\* the responses the two services give while run iterates
RunAddressResponses ==
    { NetError, Json([candidates |-> <<>>]) }
    \cup { Json([candidates |-> << [location |-> [x |-> Number(p[1]),
                                                  y |-> Number(p[2])]] >>]) :
              p \in { <<0, 0>>, <<0, 4>>, <<4, 0>>, <<4, -4>> } }

RunParcelResponses ==
    { NetError, Json([features |-> <<>>]) }
    \cup { Json([features |-> << [geometry |-> [rings |-> g]] >>]) :
              g \in { << <<>> >>, << Square >>,
                      << << <<-4, 4>>, <<4, 4>> >> >>,
                      << << <<4, -4>>, <<4, 4>> >>, << <<0, 0>> >> >> } }

Init ==
    /\ argv \in Argvs
    /\ \E sheet \in Worksheets :
          fs = [f \in Files |-> IF f = InFile
                                THEN [readable |-> TRUE, rows |-> sheet]
                                ELSE [readable |-> FALSE]]
    /\ pc = "main"
    /\ ws = <<>>
    /\ headers = <<>>
    /\ new_ws = <<>>
    /\ saved = None
    /\ stdout = <<>>
    /\ requests = 0
    /\ trace = <<>>
    /\ TextIdle /\ GeoIdle

\* lines 232-257: the usage text when the argument count is wrong, then the
\* call run(sys.argv[1]) in either case
Main ==
    /\ pc = "main"
    /\ stdout' = IF Len(argv) # 2 THEN Append(stdout, Usage) ELSE stdout
    /\ pc' = IF Len(argv) < 2 THEN "crash" ELSE "run"
    /\ UNCHANGED <<argv, fs, ws, headers, new_ws, saved, requests, trace,
                   textVars, geoVars>>

source_filename == argv[2]

\* lines 41-45
RunLoad ==
    /\ pc = "run"
    /\ IF fs[source_filename].readable
       THEN /\ ws' = fs[source_filename].rows
            /\ pc' = "loaded"
            /\ UNCHANGED stdout
       ELSE /\ stdout' = Append(stdout, CannotLoad(source_filename))
            /\ pc' = "return"
            /\ UNCHANGED ws
    /\ UNCHANGED <<argv, fs, headers, new_ws, saved, requests, trace,
                   textVars, geoVars>>

\* lines 46-66
RunHeaders ==
    /\ pc = "loaded"
    /\ IF Len(ws) = 0
       THEN \* next(rows) raises StopIteration
            /\ pc' = "crash"
            /\ UNCHANGED <<ws, headers, new_ws, stdout>>
       ELSE IF ~HasAddress(Head(ws))
       THEN /\ stdout' = Append(stdout, NoAddressColumn)
            /\ pc' = "return"
            /\ ws' = Tail(ws)
            /\ headers' = Head(ws)
            /\ UNCHANGED new_ws
       ELSE IF index(Head(ws), "Address").exc # ""
       THEN /\ pc' = "crash"
            /\ ws' = Tail(ws)
            /\ headers' = Head(ws)
            /\ UNCHANGED <<new_ws, stdout>>
       ELSE /\ headers' = with_xy(Head(ws))
            /\ new_ws' = Append(new_ws, with_xy(Head(ws)))
            /\ ws' = Tail(ws)
            /\ pc' = "rows"
            /\ UNCHANGED stdout
    /\ UNCHANGED <<argv, fs, saved, requests, trace, textVars, geoVars>>

col_add == index(fs[source_filename].rows[1], "Address").val
col_x == index(headers, "X").val
col_y == index(headers, "Y").val

Call(fn, arg, out) == [fn |-> fn, arg |-> arg, out |-> out]

\* an exception leaves the loop and run: nothing is appended or saved
RowRaises(calls, printed, sent) ==
    /\ trace' = Append(trace, calls)
    /\ stdout' = stdout \o printed
    /\ requests' = requests + sent
    /\ ws' = Tail(ws)
    /\ pc' = "crash"
    /\ UNCHANGED new_ws

\* lines 76-77, 84-85 and 88: the row is appended and the loop goes on
RowAppended(calls, printed, sent, new_row) ==
    /\ trace' = Append(trace, calls)
    /\ stdout' = stdout \o printed
    /\ requests' = requests + sent
    /\ ws' = Tail(ws)
    /\ pc' = "rows"
    /\ new_ws' = Append(new_ws, new_row)

\* lines 83-88, for the outcome of the resolver called for the row
RowResolved(calls, resolved, new_row) ==
    IF resolved.exc # ""
    THEN RowRaises(calls, resolved.printed, Len(resolved.sent))
    ELSE IF unresolved(resolved.ret.val)
    THEN RowAppended(calls, resolved.printed, Len(resolved.sent), new_row)
    ELSE RowAppended(calls, resolved.printed, Len(resolved.sent),
                     [new_row EXCEPT ![col_x] = resolved.ret.val.x,
                                     ![col_y] = resolved.ret.val.y])

\* lines 68-88, one iteration of the main loop; s is what the service
\* answers when the row queries it.  Each helper is called once and its
\* outcome bound by the quantifier.
RunRow ==
    /\ pc = "rows"
    /\ Len(ws) > 0
    /\ LET r == Head(ws)
           new_row == pad(r, headers)
           address_string == r[col_add]
       IN \E add_type \in { classify(address_string) } :
          LET c1 == Call("classify", address_string, add_type)
          IN IF add_type.exc # "" THEN RowRaises(<<c1>>, <<>>, 0)
             ELSE IF dispatch(add_type.val) = "skip"
             THEN RowAppended(<<c1>>, <<>>, 0, new_row)
             ELSE IF dispatch(add_type.val) = "geocode_legal"
             THEN \E legal \in { parse_legal(address_string) } :
                  LET c2 == Call("parse_legal", address_string, legal)
                  IN IF legal.exc # "" THEN RowRaises(<<c1, c2>>, <<>>, 0)
                     ELSE \E s \in RunParcelResponses :
                          \E resolved \in { geocode_legal(s, legal.val) } :
                            RowResolved(<<c1, c2, Call("geocode_legal", legal.val,
                                                       resolved.ret)>>,
                                        resolved, new_row)
             ELSE \E s \in RunAddressResponses :
                  \E resolved \in { geocode(s, address_string) } :
                    RowResolved(<<c1, Call("geocode", address_string,
                                           resolved.ret)>>,
                                resolved, new_row)
    /\ UNCHANGED <<argv, fs, headers, saved, textVars, geoVars>>

\* lines 89-91
RunSave ==
    /\ pc = "rows"
    /\ Len(ws) = 0
    /\ saved' = [name |-> dst_name(source_filename), rows |-> new_ws]
    /\ stdout' = Append(stdout, WorksheetSaved)
    /\ pc' = "return"
    /\ UNCHANGED <<argv, fs, ws, headers, new_ws, requests, trace,
                   textVars, geoVars>>

Next == Main \/ RunLoad \/ RunHeaders \/ RunRow \/ RunSave

Spec == Init /\ [][Next]_vars

-----------------------------------------------------------------------------
(* The two grammars of the specification, stated on the whole string *)

AllDigits(s) == Len(s) >= 1 /\ \A k \in 1..Len(s) : IsDigit(s[k])
NoDigits(s) == Len(s) >= 1 /\ \A k \in 1..Len(s) : ~IsDigit(s[k])

\* digits, a space, non-digit text, a space, a street suffix or 1-3 digits
IsStreetAddress(s) ==
    \E i, j \in 1..Len(s) :
        /\ i < j
        /\ AllDigits(SubSeq(s, 1, i - 1))
        /\ s[i] = " "
        /\ NoDigits(SubSeq(s, i + 1, j - 1))
        /\ s[j] = " "
        /\ LET suffix == SubSeq(s, j + 1, Len(s))
           IN \/ suffix \in StreetSuffixes
              \/ (AllDigits(suffix) /\ Len(suffix) <= 3)

\* g is "kw <integer> "
KeywordGroup(g, kw) ==
    /\ Len(g) >= Len(kw) + 3
    /\ SubSeq(g, 1, Len(kw) + 1) = kw \o Space
    /\ AllDigits(SubSeq(g, Len(kw) + 2, Len(g) - 1))
    /\ g[Len(g)] = " "

Keywords == {Lot, Block}

\* one or two keyword groups, then non-digit text up to the end
IsLegalDescription(s) ==
    \E a, b \in 0..Len(s) :
        /\ a <= b
        /\ \E kw \in Keywords : KeywordGroup(SubSeq(s, 1, a), kw)
        /\ a < b => \E kw \in Keywords : KeywordGroup(SubSeq(s, a + 1, b), kw)
        /\ NoDigits(SubSeq(s, b + 1, Len(s)))

RECURSIVE Pow10(_)
Pow10(n) == IF n = 0 THEN 1 ELSE 10 * Pow10(n - 1)

\* the integer a keyword group "kw <integer> " carries
GroupValue(g, kw) ==
    LET ds == SubSeq(g, Len(kw) + 2, Len(g) - 1)
    IN Sum([k \in 1..Len(ds) |-> DigitValue(ds[k]) * Pow10(Len(ds) - k)])

Lot12Block3Shadylane ==
    Lot \o <<" ", "1", "2", " ">> \o Block \o <<" ", "3", " ">> \o Shadylane
Lot12Lot3Shadylane ==
    Lot \o <<" ", "1", "2", " ">> \o Lot \o <<" ", "3", " ">> \o Shadylane
Lot12Shadylane == Lot \o <<" ", "1", "2", " ">> \o Shadylane
Block3Shadylane == Block \o <<" ", "3", " ">> \o Shadylane

\* C7: classify never raises on a str and returns StreetAddress exactly for
\* the strings that are a street address from start to end, LegalDescription
\* exactly for the other strings that are a legal description from start to
\* end, and Unclassifiable for all remaining strings.
C7_ClassifyFullMatch ==
    text_out.fn = "classify" =>
        text_out.out = Return(IF IsStreetAddress(text) THEN "ADD"
                              ELSE IF IsLegalDescription(text) THEN "LEGAL"
                              ELSE "NA")

\* C8: for a string classified LegalDescription parse_legal returns a Legal
\* whose lot (block) is the integer of the last Lot (Block) group, null when
\* there is no such group, and whose subdivision is the trailing non-digit
\* text, non-empty; lot and block are never both null.
C8_ParseLegal ==
    (text_out.fn = "parse_legal" /\ classify(Str(text)) = Return("LEGAL")) =>
        /\ text_out.out.exc = ""
        /\ LET legal == text_out.out.val
           IN /\ legal.lot # None \/ legal.block # None
              /\ legal.subdivision.t = "str"
              /\ Len(legal.subdivision.v) >= 1
              /\ \A a, b \in 0..Len(text) : \A kw1, kw2 \in Keywords :
                    ( /\ a <= b
                      /\ KeywordGroup(SubSeq(text, 1, a), kw1)
                      /\ a < b => KeywordGroup(SubSeq(text, a + 1, b), kw2)
                      /\ a = b => kw2 = kw1
                      /\ NoDigits(SubSeq(text, b + 1, Len(text))) )
                    => LET v1 == PyInt(GroupValue(SubSeq(text, 1, a), kw1))
                           v2 == IF a < b
                                 THEN PyInt(GroupValue(SubSeq(text, a + 1, b), kw2))
                                 ELSE v1
                       IN /\ legal.subdivision = Str(SubSeq(text, b + 1, Len(text)))
                          /\ legal.lot = IF kw2 = Lot THEN v2
                                         ELSE IF kw1 = Lot THEN v1 ELSE None
                          /\ legal.block = IF kw2 = Block THEN v2
                                           ELSE IF kw1 = Block THEN v1 ELSE None
              /\ text = Lot12Block3Shadylane
                    => legal = Legal(PyInt(12), PyInt(3), Str(Shadylane))
              /\ text = Lot12Shadylane
                    => legal = Legal(PyInt(12), None, Str(Shadylane))
              /\ text = Block3Shadylane
                    => legal = Legal(None, PyInt(3), Str(Shadylane))

\* both pairs use the keyword Lot: the second integer is kept, block is null
C8_Witness ==
    /\ text = Lot12Lot3Shadylane
    /\ text_out.fn = "parse_legal"
    /\ text_out.out = Return(Legal(PyInt(3), None, Str(Shadylane)))

-----------------------------------------------------------------------------
(* Resolver and centroid properties *)

\* the number v equals n / d
IsQuotient(v, n, d) == v.t = "num" /\ v.den > 0 /\ v.num * d = n * v.den

\* p is the mean of the points of the ring r
IsMean(p, r) ==
    /\ IsQuotient(p.x, Sum([k \in 1..Len(r) |-> r[k][1]]), Len(r))
    /\ IsQuotient(p.y, Sum([k \in 1..Len(r) |-> r[k][2]]), Len(r))

AddressWellFormed(s) ==
    /\ s.net = "ok" /\ s.json
    /\ HasKey(s.j, "candidates") /\ Len(s.j.candidates) >= 1
    /\ HasKey(s.j.candidates[1], "location")
    /\ HasKey(s.j.candidates[1].location, "x")
    /\ HasKey(s.j.candidates[1].location, "y")

ParcelWellFormed(s) ==
    /\ s.net = "ok" /\ s.json
    /\ HasKey(s.j, "features") /\ Len(s.j.features) >= 1
    /\ HasKey(s.j.features[1], "geometry")
    /\ HasKey(s.j.features[1].geometry, "rings")
    /\ Len(s.j.features[1].geometry.rings) >= 1
    /\ Len(s.j.features[1].geometry.rings[1]) >= 1

\* the outcome o is the sentinel returned after a diagnostic naming arg
Unresolved(o, arg) ==
    /\ o.ret = Return(Sentinel)
    /\ Len(o.printed) >= 1
    /\ \A k \in 1..Len(o.printed) : o.printed[k].arg = arg

\* C4: geocode and geocode_legal never raise; every response that is not
\* well-formed and non-empty gives the sentinel (0,0) and a diagnostic naming
\* the address or legal description; a well-formed non-empty response gives
\* the first candidate's location, or the centroid of the first feature.
C4_ResolversNeverRaise ==
    /\ geo_out.fn = "geocode" =>
          /\ geo_out.out.exc = ""
          /\ IF AddressWellFormed(geo_in.s)
             THEN LET loc == geo_in.s.j.candidates[1].location
                  IN geo_out.out.ret = Return(Point(loc.x, loc.y))
             ELSE Unresolved(geo_out.out, geo_in.address)
    /\ geo_out.fn = "geocode_legal" =>
          /\ geo_out.out.exc = ""
          /\ IF ParcelWellFormed(geo_in.s)
             THEN /\ geo_out.out.ret.exc = ""
                  /\ IsMean(geo_out.out.ret.val,
                            geo_in.s.j.features[1].geometry.rings[1])
             ELSE Unresolved(geo_out.out, geo_in.legal)

\* the first feature's first ring has no points: the division by zero is
\* caught and the sentinel returned
C4_Witness ==
    /\ geo_out.fn = "geocode_legal"
    /\ geo_in.s = Json([features |-> << [geometry |-> [rings |-> << <<>> >>]] >>])
    /\ geo_out.out.ret = Return(Sentinel)
    /\ geo_out.out.printed[1].err = "ZeroDivisionError"

\* C9: for a geometry whose first ring has n >= 1 points centroid returns the
\* point (sum of x / n, sum of y / n) of that first ring, whatever the later
\* rings are; the ring [[0,0],[4,0],[4,4],[0,4]] gives (2,2).
C9_Centroid ==
    (geo_out.fn = "centroid" /\ Len(geo_in.ring) >= 1
        /\ Len(geo_in.ring[1]) >= 1) =>
        /\ geo_out.out.exc = ""
        /\ IsMean(geo_out.out.val, geo_in.ring[1])
        /\ geo_in.ring[1] = Square
              => geo_out.out.val = Point(Number(2), Number(2))

\* the square followed by a second ring
C9_Witness ==
    /\ geo_out.fn = "centroid"
    /\ geo_in.ring = << Square, << <<-4, 0>>, <<0, 4>> >> >>
    /\ geo_out.out = Return(Point(Number(2), Number(2)))

-----------------------------------------------------------------------------
(* Properties of run and of the command line *)

\* the rows of the input worksheet: the header row, then the data rows
in_rows == fs[source_filename].rows
DataRow(k) == in_rows[k + 1]
OutRow(k) == new_ws[k + 1]

\* the cell of data row k under header h in the input (empty when the input
\* has no such column) and in the output
OldCell(k, h) ==
    IF Contains(in_rows[1], h)
    THEN DataRow(k)[CHOOSE c \in 1..Len(in_rows[1]) : in_rows[1][c] = h]
    ELSE None
OutCell(k, h) == OutRow(k)[CHOOSE c \in 1..Len(new_ws[1]) : new_ws[1][c] = h]

Resolvers == {"geocode", "geocode_legal"}

\* run was called on a loadable workbook whose header row has an Address
\* column
UsableInput ==
    /\ Len(argv) >= 2
    /\ pc # "main"
    /\ fs[source_filename].readable
    /\ Len(in_rows) >= 1
    /\ Contains(in_rows[1], "Address")

\* C1: once run has ended on a workbook with an Address column, a workbook
\* has been saved that holds every input data row once, in order, each cell
\* outside the X and Y columns unchanged.
C1_RoundTrip ==
    (UsableInput /\ pc \in {"return", "crash"}) =>
        /\ saved # None
        /\ Len(saved.rows) = Len(in_rows)
        /\ \A k \in 1..(Len(in_rows) - 1) : \A c \in 1..Len(DataRow(k)) :
              saved.rows[1][c] \notin {"X", "Y"}
                  => saved.rows[k + 1][c] = DataRow(k)[c]

\* C2: a row whose resolver returned the sentinel (0,0) is appended with its
\* X and Y cells as they were in the input (empty when run added the
\* columns); 0 and 0 are not written.
C2_SentinelLeavesBlank ==
    \A k \in 1..Len(trace) : \A i \in 1..Len(trace[k]) :
        (trace[k][i].fn \in Resolvers /\ trace[k][i].out = Return(Sentinel)) =>
            /\ Len(new_ws) >= k + 1
            /\ OutCell(k, "X") = OldCell(k, "X")
            /\ OutCell(k, "Y") = OldCell(k, "Y")
            /\ ~(OutCell(k, "X") = Number(0) /\ OutCell(k, "Y") = Number(0))

\* the first candidate lies at (0,0) and the row's X cell held 7
C2_Witness ==
    /\ Len(trace) >= 1 /\ Len(new_ws) >= 2
    /\ Len(trace[1]) = 2
    /\ trace[1][2].fn = "geocode"
    /\ trace[1][2].out = Return(Sentinel)
    /\ stdout = <<>>
    /\ Contains(in_rows[1], "X")
    /\ OutCell(1, "X") = Number(7)

\* the helpers run called for data row k, in order
CallsOf(k) == [i \in 1..Len(trace[k]) |-> trace[k][i].fn]

\* the number of resolver calls made so far
RECURSIVE ResolverCalls(_)
ResolverCalls(k) ==
    IF k = 0 THEN 0
    ELSE ResolverCalls(k - 1)
         + Cardinality({ i \in 1..Len(trace[k]) : trace[k][i].fn \in Resolvers })

\* C3: a StreetAddress row makes one geocode call and nothing else; a
\* LegalDescription row makes parse_legal and then one geocode_legal call
\* on its result; an Unclassifiable row makes no resolver call and is
\* appended with its X and Y cells unchanged; each resolver call is one
\* request.
C3_Dispatch ==
    /\ \A k \in 1..Len(trace) :
        LET add_type == classify(DataRow(k)[col_add])
        IN /\ add_type = Return("ADD") => CallsOf(k) = <<"classify", "geocode">>
           /\ add_type = Return("LEGAL") =>
                 /\ CallsOf(k) = <<"classify", "parse_legal", "geocode_legal">>
                 /\ trace[k][3].arg = trace[k][2].out.val
           /\ add_type = Return("NA") =>
                 /\ CallsOf(k) = <<"classify">>
                 /\ Len(new_ws) >= k + 1
                 /\ OutCell(k, "X") = OldCell(k, "X")
                 /\ OutCell(k, "Y") = OldCell(k, "Y")
    /\ requests = ResolverCalls(Len(trace))

\* a LegalDescription row followed by an Unclassifiable row
C3_Witness ==
    /\ Len(trace) = 2 /\ Len(new_ws) = 3
    /\ CallsOf(1) = <<"classify", "parse_legal", "geocode_legal">>
    /\ trace[1][3].arg = Legal(PyInt(12), PyInt(3), Str(Shadylane))
    /\ CallsOf(2) = <<"classify">>
    /\ requests = 1

\* C5: with an argument count other than one the usage text is printed and
\* nothing is processed: run is not called, no workbook loaded, no request
\* made, no output written.
C5_WrongArgCount ==
    (Len(argv) # 2 /\ pc # "main") =>
        /\ Contains(stdout, Usage)
        /\ pc \notin {"run", "loaded", "rows", "return"}
        /\ ws = <<>>
        /\ requests = 0
        /\ saved = None

\* C6: when the file cannot be loaded or its header row has no Address
\* column, run returns after a diagnostic, without a request, without
\* entering the loop and without saving.
C6_InputError ==
    ( /\ Len(argv) >= 2
      /\ pc \notin {"main", "run"}
      /\ \/ ~fs[source_filename].readable
         \/ (Len(in_rows) >= 1 /\ ~Contains(in_rows[1], "Address")) ) =>
        /\ requests = 0
        /\ saved = None
        /\ new_ws = <<>>
        /\ trace = <<>>
        /\ pc \in {"loaded", "return"}
        /\ pc = "return" =>
              stdout \in { <<CannotLoad(source_filename)>>, <<NoAddressColumn>>,
                           <<Usage, CannotLoad(source_filename)>>,
                           <<Usage, NoAddressColumn>> }

\* a sheet with data rows but no Address column
C6_Witness ==
    /\ argv = <<Program, InFile>>
    /\ pc = "return"
    /\ Len(in_rows) = 3
    /\ in_rows[1] = <<"Name">>
    /\ stdout = <<NoAddressColumn>>
    /\ saved = None

\* C10: a row whose resolver returned a Point other than (0,0) is appended
\* with that Point's x in its X cell and y in its Y cell.
C10_ResolvedWritten ==
    \A k \in 1..Len(trace) : \A i \in 1..Len(trace[k]) :
        ( /\ trace[k][i].fn \in Resolvers
          /\ trace[k][i].out.exc = ""
          /\ trace[k][i].out # Return(Sentinel) ) =>
            /\ Len(new_ws) >= k + 1
            /\ OutCell(k, "X") = trace[k][i].out.val.x
            /\ OutCell(k, "Y") = trace[k][i].out.val.y

====
